---- MODULE Spec2Model ----
(***************************************************************************)
(* Model of wmradioyear.py: a Streamlit script that loads a radio playback *)
(* log, filters it by weekday and hour, and computes descriptive           *)
(* aggregates.  Every user interaction re-runs the whole script; only      *)
(* get_data is memoised (st.cache_data) across runs.                       *)
(*                                                                         *)
(* Timestamps are minutes since Monday 00:00 of a reference week.  A CSV   *)
(* cell that is empty is NaT / NaN, a timestamp cell whose text is not a   *)
(* date is Unparseable.                                                    *)
(***************************************************************************)
EXTENDS Integers, Sequences, FiniteSets, TLC

VARIABLES
    uploaded,       \* value of the file_uploader widget: NoUpload or an uploaded file
    urlFile,        \* the CSV served at the fallback URL
    cache,          \* st.cache_data memo of get_data: source reference -> dataset
    readSrc,        \* sources read and parsed by load_data during the last step
    days,           \* value of the weekday multiselect
    hour_range,     \* value of the hour slider, <<start, end>>
    phase,          \* position in the script: "start", "loaded", "filtered", "done"
    error,          \* the exception that stopped the run, [type, line], or NoError
    computed,       \* names of the module-level values the run has assigned
    df,             \* the cleaned dataset returned by get_data
    filtered,       \* filter_data(df, days, hour_range)
    metrics,        \* the three summary metrics
    top_songs,      \* filtered['song'].value_counts().head(30)
    top_artists,    \* filtered['artist'].value_counts().head(30)
    artwork,        \* the images shown by the artwork loop, one per column
    avg_data,       \* rows of the average-gap table
    heatmap_df,     \* rows of the day x hour frequency table
    daily_counts    \* the daily time series

vars == <<uploaded, urlFile, cache, readSrc, days, hour_range, phase, error,
          computed, df, filtered, metrics, top_songs, top_artists, artwork,
          avg_data, heatmap_df, daily_counts>>

outputs == <<filtered, metrics, top_songs, top_artists, artwork, avg_data,
             heatmap_df, daily_counts>>

----------------------------------------------------------------------------
(* Values *)

NaN == "NaN"            \* a missing value of a text column
NaT == -2               \* a missing timestamp (empty cell)
Unparseable == -1       \* a timestamp cell that read_csv cannot parse as a date
NaNHour == -1           \* .dt.hour of NaT

NETWORK == "The WMW Radio Network"
PROMO == "Promo"

Weekdays == <<"Monday", "Tuesday", "Wednesday", "Thursday", "Friday",
              "Saturday", "Sunday">>
AllDays == {Weekdays[i] : i \in 1..7}

SliderMin == 0
DefaultStart == 14
DefaultEnd == 22
TopN == 30
MaxArtCols == 5

MinutesPerHour == 60
MinutesPerDay == 24 * MinutesPerHour

At(day, hh, mm) == (day - 1) * MinutesPerDay + hh * MinutesPerHour + mm

\* Series.dt.day_name() and Series.dt.hour
day_name(t) == IF t = NaT THEN NaN ELSE Weekdays[((t \div MinutesPerDay) % 7) + 1]
hour(t) == IF t = NaT THEN NaNHour ELSE (t % MinutesPerDay) \div MinutesPerHour

Min(a, b) == IF a <= b THEN a ELSE b

NoError == [type |-> "none", line |-> 0]
Raise(t, l) == [type |-> t, line |-> l]

EmptyDf == [columns |-> <<>>, rows |-> <<>>]

----------------------------------------------------------------------------
(* load_data *)

Count(s, x) == Cardinality({i \in DOMAIN s : s[i] = x})
Has(s, x) == \E i \in DOMAIN s : s[i] = x

\* df.rename(columns={'artwork_large': 'artwork_url'}): every column of that
\* name is renamed, whether or not an artwork_url column exists already
Rename(columns) ==
    [i \in DOMAIN columns |->
        IF columns[i] = "artwork_large" THEN "artwork_url" ELSE columns[i]]

\* the cells of a raw row under the artwork columns, in header order
ArtCells(columns, raw) ==
    LET artcols == SelectSeq(columns, LAMBDA c : c \in {"artwork_large", "artwork_url"})
    IN  [i \in DOMAIN artcols |-> raw[artcols[i]]]

\* a mask that drops a row only if both conditions hold
Mask_both(raw) == ~((raw.artist = NETWORK) /\ (raw.song = PROMO))

\* mask = ~((artist == NETWORK) | (song == PROMO))
Mask(raw) == ~((raw.artist = NETWORK) \/ (raw.song = PROMO))

CleanRow(columns, raw) ==
    [timestamp |-> raw.timestamp, artist |-> raw.artist, song |-> raw.song,
     art |-> ArtCells(columns, raw),
     day_of_week |-> day_name(raw.timestamp), hour |-> hour(raw.timestamp)]

\* a check of the surviving rows only
IsDatetimeColumn_kept(rows) ==
    \A i \in DOMAIN rows :
        rows[i].timestamp = Unparseable => (rows[i].artist = NETWORK \/ rows[i].song = PROMO)

\* the timestamp column is datetime64 only if read_csv parsed every cell;
\* otherwise it is returned unaltered as object dtype and .dt raises
IsDatetimeColumn(rows) == \A i \in DOMAIN rows : rows[i].timestamp # Unparseable

load_data(file) ==
    IF ~Has(file.columns, "timestamp")
    THEN [error |-> Raise("ValueError", 8), df |-> EmptyDf]
    ELSE IF ~Has(file.columns, "artist") \/ ~Has(file.columns, "song")
    THEN [error |-> Raise("KeyError", 13), df |-> EmptyDf]
    ELSE IF ~IsDatetimeColumn(file.rows)
    THEN [error |-> Raise("AttributeError", 16), df |-> EmptyDf]
    ELSE [error |-> NoError,
          df |-> [columns |-> Rename(file.columns) \o <<"day_of_week", "hour">>,
                  rows |-> LET kept == SelectSeq(file.rows, Mask)
                           IN  [i \in DOMAIN kept |-> CleanRow(file.columns, kept[i])]]]

----------------------------------------------------------------------------
(* filter_data *)

\* a range that excludes its upper end
between_open(x, lo, hi) == x # NaNHour /\ lo <= x /\ x < hi

isin(x, S) == x \in S
between(x, lo, hi) == x # NaNHour /\ lo <= x /\ x <= hi

filter_data(d, W, hr) ==
    [columns |-> d.columns,
     rows |-> SelectSeq(d.rows,
                LAMBDA r : isin(r.day_of_week, W) /\ between(r.hour, hr[1], hr[2]))]

----------------------------------------------------------------------------
(* pandas helpers used by the dashboard section *)

Column(d, c) == [i \in DOMAIN d.rows |-> d.rows[i][c]]

RECURSIVE UniqueFrom(_, _)
UniqueFrom(vals, acc) ==
    IF vals = <<>> THEN acc
    ELSE LET v == Head(vals)
         IN  UniqueFrom(Tail(vals),
                        IF v = NaN \/ Has(acc, v) THEN acc ELSE Append(acc, v))

\* the distinct non-missing values, in order of first appearance
unique(vals) == UniqueFrom(vals, <<>>)

\* Series.nunique(): missing values are not counted
nunique(vals) == Len(unique(vals))

RECURSIVE InsertDesc(_, _)
InsertDesc(s, e) ==
    IF s = <<>> THEN <<e>>
    ELSE IF Head(s).count >= e.count THEN <<Head(s)>> \o InsertDesc(Tail(s), e)
    ELSE <<e>> \o s

RECURSIVE SortDescFrom(_, _)
SortDescFrom(items, acc) ==
    IF items = <<>> THEN acc
    ELSE SortDescFrom(Tail(items), InsertDesc(acc, Head(items)))

\* Series.value_counts(): missing values dropped, descending by count, equal
\* counts in order of first appearance
value_counts(vals) ==
    LET u == unique(vals)
    IN  SortDescFrom([i \in DOMAIN u |-> [value |-> u[i], count |-> Count(vals, u[i])]],
                     <<>>)

\* a head that is one entry too long
head_plus_one(s, n) == SubSeq(s, 1, Min(n + 1, Len(s)))

head(s, n) == SubSeq(s, 1, Min(n, Len(s)))

RECURSIVE InsertAsc(_, _)
InsertAsc(s, t) ==
    IF s = <<>> THEN <<t>>
    ELSE IF Head(s) <= t THEN <<Head(s)>> \o InsertAsc(Tail(s), t)
    ELSE <<t>> \o s

RECURSIVE SortAscFrom(_, _)
SortAscFrom(ts, acc) ==
    IF ts = <<>> THEN acc ELSE SortAscFrom(Tail(ts), InsertAsc(acc, Head(ts)))

\* the times left in file order
sort_values_none(ts) == ts

sort_values(ts) == SortAscFrom(ts, <<>>)

\* Series.diff().dropna(): consecutive differences, the leading NaT dropped
diff(ts) == [i \in 1..(Len(ts) - 1) |-> ts[i + 1] - ts[i]]

RECURSIVE Sum(_)
Sum(s) == IF s = <<>> THEN 0 ELSE Head(s) + Sum(Tail(s))

\* a float shown with two decimals, as a count of hundredths, or nan
NaNFloat == [nan |-> TRUE, hundredths |-> 0]
Float(h) == [nan |-> FALSE, hundredths |-> h]

\* num / den rounded to the nearest integer, halves to the even neighbour;
\* the arithmetic is exact, the rounding error of the float mean is not modelled
RoundHalfEven(num, den) ==
    LET q == num \div den
        r == num % den
    IN  IF 2 * r < den THEN q
        ELSE IF 2 * r > den THEN q + 1
        ELSE IF q % 2 = 0 THEN q ELSE q + 1

\* round(diffs_in_minutes.mean() / 60, 2) in hundredths of an hour
round2_mean_hours(diffs) ==
    RoundHalfEven(100 * Sum(diffs), MinutesPerHour * Len(diffs))

----------------------------------------------------------------------------
(* the dashboard section, lines 55-109 *)

PlaysOf(f, song) == SelectSeq(f.rows, LAMBDA r : r.song = song)

\* lines 84-87 for one song
avg_row(f, song) ==
    LET times == sort_values(Column([rows |-> PlaysOf(f, song)], "timestamp"))
        diffs == diff(times)
    IN  [song |-> song,
         avg_hours_between_plays |->
            IF diffs # <<>> THEN Float(round2_mean_hours(diffs)) ELSE NaNFloat]

avg_loop(f, names) == [i \in DOMAIN names |-> avg_row(f, names[i])]

\* st.columns(n) raises StreamlitAPIException unless n is a positive integer
columns_ok(n) == n > 0

\* filtered.loc[filtered['song'] == song, 'artwork_url'].iloc[0]: the label
\* selects every column of that name
art_lookup(f, song) ==
    LET k == Count(f.columns, "artwork_url")
    IN  IF k = 0 THEN [error |-> Raise("KeyError", 77), value |-> <<>>]
        ELSE [error |-> NoError, value |-> PlaysOf(f, song)[1].art]

\* what col.image is given is a URL only if the lookup gave one text value
IsUrl(value) == Len(value) = 1 /\ value[1] # NaN

\* lines 76-78; imgRaises: whether st.image raises on an argument that is
\* not an image (a nan, a Series) or renders nothing for it
RECURSIVE artwork_loop(_, _, _, _, _)
artwork_loop(f, names, i, shown, imgRaises) ==
    IF i > Min(Len(names), MaxArtCols) THEN [error |-> NoError, shown |-> shown]
    ELSE LET art == art_lookup(f, names[i])
         IN  IF art.error # NoError THEN [error |-> art.error, shown |-> shown]
             ELSE IF IsUrl(art.value)
             THEN artwork_loop(f, names, i + 1,
                               Append(shown, [song |-> names[i], url |-> art.value[1]]),
                               imgRaises)
             ELSE IF imgRaises THEN [error |-> Raise("TypeError", 78), shown |-> shown]
             ELSE artwork_loop(f, names, i + 1,
                               Append(shown, [song |-> names[i], url |-> NaN]),
                               imgRaises)

\* groupby sorts its keys: weekday names alphabetically, then hours
AlphaDays == <<"Friday", "Monday", "Saturday", "Sunday", "Thursday", "Tuesday",
               "Wednesday">>

\* a group size that ignores the weekday
GroupSize_hour(f, d, h) == Cardinality({i \in DOMAIN f.rows : f.rows[i].hour = h})

GroupSize(f, d, h) ==
    Cardinality({i \in DOMAIN f.rows : f.rows[i].day_of_week = d /\ f.rows[i].hour = h})

\* filtered.groupby(['day_of_week', 'hour']).size().reset_index(name='count')
heatmap(f) ==
    LET keys == [k \in 1..(7 * 24) |->
                    [day_of_week |-> AlphaDays[((k - 1) \div 24) + 1],
                     hour |-> (k - 1) % 24]]
        seen == SelectSeq(keys, LAMBDA g : GroupSize(f, g.day_of_week, g.hour) > 0)
    IN  [i \in DOMAIN seen |->
            [day_of_week |-> seen[i].day_of_week, hour |-> seen[i].hour,
             count |-> GroupSize(f, seen[i].day_of_week, seen[i].hour)]]

DayOf(t) == t \div MinutesPerDay

\* filtered.set_index('timestamp').resample('D').size(): one bin per calendar
\* day from the first play to the last, empty days counted 0
resample_daily(f) ==
    IF f.rows = <<>> THEN <<>>
    ELSE LET ds == {DayOf(f.rows[i].timestamp) : i \in DOMAIN f.rows}
             lo == CHOOSE d \in ds : \A e \in ds : d <= e
             hi == CHOOSE d \in ds : \A e \in ds : e <= d
         IN  [k \in 1..(hi - lo + 1) |->
                [day |-> lo + k - 1,
                 count |-> Cardinality({i \in DOMAIN f.rows :
                                          DayOf(f.rows[i].timestamp) = lo + k - 1})]]

NoMetrics == [total_plays |-> 0, unique_songs |-> 0, unique_artists |-> 0]

\* the values a run has before the dashboard section assigns them
Blank ==
    [error |-> NoError, computed |-> {}, metrics |-> NoMetrics, top_songs |-> <<>>,
     top_artists |-> <<>>, artwork |-> <<>>, avg_data |-> <<>>,
     heatmap_df |-> <<>>, daily_counts |-> <<>>]

\* lines 55-109 on the filtered dataset f: each value is assigned in script
\* order until an exception stops the run
dashboard(f, imgRaises) ==
    LET m   == [total_plays |-> Len(f.rows),
                unique_songs |-> nunique(Column(f, "song")),
                unique_artists |-> nunique(Column(f, "artist"))]
        ts  == head(value_counts(Column(f, "song")), TopN)
        ta  == head(value_counts(Column(f, "artist")), TopN)
        top_song_names == [i \in DOMAIN ts |-> ts[i].value]
        s1  == [Blank EXCEPT !.metrics = m, !.top_songs = ts, !.top_artists = ta,
                             !.computed = {"metrics", "top_songs", "top_artists"}]
    IN  IF ~columns_ok(Min(Len(top_song_names), MaxArtCols))
        THEN [s1 EXCEPT !.error = Raise("StreamlitAPIException", 75)]
        ELSE LET loop == artwork_loop(f, top_song_names, 1, <<>>, imgRaises)
             IN  IF loop.error # NoError
                 THEN [s1 EXCEPT !.error = loop.error, !.artwork = loop.shown]
                 ELSE [s1 EXCEPT !.artwork = loop.shown,
                                 !.avg_data = avg_loop(f, top_song_names),
                                 !.heatmap_df = heatmap(f),
                                 !.daily_counts = resample_daily(f),
                                 !.computed = @ \cup {"artwork", "avg_data",
                                                      "heatmap_df", "daily_counts"}]

----------------------------------------------------------------------------
(* Input files *)

\* a CSV file: its header and its data rows; a row holds a cell for each of
\* the five columns the script knows, the cells of absent columns unused
File(columns, rows) == [columns |-> columns, rows |-> rows]

Raw(t, a, s, al, au) ==
    [timestamp |-> t, artist |-> a, song |-> s, artwork_large |-> al, artwork_url |-> au]

Required == <<"timestamp", "artist", "song">>

\* the headers with at most one required column missing, crossed with the
\* artwork columns present
RequiredVariants ==
    {Required, <<"artist", "song">>, <<"timestamp", "song">>, <<"timestamp", "artist">>}
ArtVariants ==
    {<<>>, <<"artwork_large">>, <<"artwork_url">>,
     <<"artwork_large", "artwork_url">>, <<"artwork_url", "artwork_large">>}
Headers == {r \o a : r \in RequiredVariants, a \in ArtVariants}

Cells(columns, c, present, absent) == IF Has(columns, c) THEN present ELSE {absent}

MaxRows == 2
MaxSchemaRows == 1
MaxPlays == 3
MaxDistinct == 31

\* the data rows of a file: at least one (what parse_dates makes of a column
\* without cells is left out of the inputs)
SeqsUpTo(S, n) == UNION {[1..k -> S] : k \in 1..n}

\* files of every header, few rows
SchemaRows(columns) ==
    [timestamp : Cells(columns, "timestamp", {At(1, 14, 0), Unparseable}, NaT),
     artist : Cells(columns, "artist", {"A", NETWORK}, NaN),
     song : Cells(columns, "song", {"x"}, NaN),
     artwork_large : Cells(columns, "artwork_large", {"L"}, NaN),
     artwork_url : Cells(columns, "artwork_url", {"U", NaN}, NaN)]
SchemaFiles ==
    UNION {{File(h, rows) : rows \in SeqsUpTo(SchemaRows(h), MaxSchemaRows)} : h \in Headers}

\* files of the canonical header whose rows vary in every field
ContentHeader == Required \o <<"artwork_url">>
Plays ==
    {<<"A", "x">>, <<"B", "y">>, <<NETWORK, "x">>, <<"A", PROMO>>, <<NaN, NaN>>}
ContentRows ==
    {Raw(t, p[1], p[2], NaN, "U") : t \in {At(1, 14, 0), At(2, 22, 30), NaT}, p \in Plays}
ContentFiles == {File(ContentHeader, rows) : rows \in SeqsUpTo(ContentRows, MaxRows)}

\* files in which one song is played at any sequence of times
GapTimes == {At(1, 0, 0), At(1, 2, 0), At(1, 5, 0), At(1, 5, 20)}
GapFiles ==
    {File(ContentHeader, [i \in DOMAIN ts |-> Raw(ts[i], "A", "x", NaN, "U")]) :
        ts \in SeqsUpTo(GapTimes, MaxPlays)}

\* files with k distinct songs played once each, then dup more plays of the
\* last of them, then miss rows without a song
WideRows(k, dup, miss) ==
    [i \in 1..(k + dup + miss) |->
        Raw(At(1, 14, 0), "A",
            IF i <= k THEN "s" \o ToString(i)
            ELSE IF i <= k + dup THEN "s" \o ToString(k) ELSE NaN,
            NaN, "U")]
WideFiles ==
    {File(ContentHeader, WideRows(k, dup, miss)) :
        k \in (TopN - 1)..MaxDistinct, dup \in 0..1, miss \in 0..1}

Files == SchemaFiles \cup ContentFiles \cup GapFiles \cup WideFiles

\* the files the user of a session has at hand to upload
GoodRows ==
    <<Raw(At(1, 14, 0), "A", "x", "L1", "U1"), Raw(At(2, 15, 30), "B", "y", "L2", "U2"),
      Raw(At(1, 14, 20), "A", "x", "L3", "U3"), Raw(At(1, 9, 0), NETWORK, PROMO, "L4", "U4")>>
GoodFile == File(Required \o <<"artwork_url">>, GoodRows)
LegacyFile == File(Required \o <<"artwork_large">>, GoodRows)
BothFile == File(Required \o <<"artwork_large", "artwork_url">>, GoodRows)
NoArtFile == File(Required, GoodRows)
NaNArtFile ==
    File(Required \o <<"artwork_url">>,
         <<Raw(At(1, 14, 0), "A", "x", NaN, NaN), Raw(At(1, 14, 20), "A", "x", NaN, "U3")>>)
PromoFile ==
    File(Required \o <<"artwork_url">>,
         <<Raw(At(1, 14, 0), NETWORK, "x", NaN, "U1"), Raw(At(1, 15, 0), "A", PROMO, NaN, "U2")>>)
NoTimestampFile == File(<<"artist", "song", "artwork_url">>, GoodRows)
BadTimestampFile ==
    File(Required \o <<"artwork_url">>,
         <<Raw(At(1, 14, 0), "A", "x", NaN, "U1"), Raw(Unparseable, "B", "y", NaN, "U2")>>)
SampleFiles ==
    {GoodFile, LegacyFile, BothFile, NoArtFile, NaNArtFile, PromoFile,
     NoTimestampFile, BadTimestampFile}
\* what the fallback URL may serve
FallbackFiles == {LegacyFile, GoodFile, BadTimestampFile}

\* the selections offered to the widgets; the slider's stops are among 0..24
DaySets == {{}, {"Monday"}, AllDays}
HourStops == {SliderMin, DefaultStart, DefaultEnd}
\* a range slider returns its two handles in order
SliderRanges == {r \in HourStops \X HourStops : r[1] <= r[2]}
\* filter_data itself accepts any set of weekday names and any pair of hours
AnyDaySets == SUBSET {"Monday", "Tuesday"}
AnyRanges == HourStops \X HourStops

----------------------------------------------------------------------------
(* get_data and the script run *)

NoUpload == [name |-> "None"]
EmptyCache == [k \in {} |-> EmptyDf]

\* line 23-26: the file get_data hands to load_data
source(u, url) == IF u # NoUpload THEN u ELSE url

\* a memo that ignores its key
get_data_unkeyed(u, url, c) ==
    IF DOMAIN c # {}
    THEN [error |-> NoError, df |-> c[CHOOSE k \in DOMAIN c : TRUE], cache |-> c, read |-> {}]
    ELSE LET r == load_data(source(u, url))
         IN  [error |-> r.error, df |-> r.df, read |-> {u},
              cache |-> IF r.error = NoError THEN (u :> r.df) @@ c ELSE c]

\* st.cache_data: the memo is keyed by the hash of the argument, which for an
\* uploaded file is taken from its name and content and for None is constant,
\* so a file stands for its own key; a call that raises stores nothing
get_data(u, url, c) ==
    IF u \in DOMAIN c
    THEN [error |-> NoError, df |-> c[u], cache |-> c, read |-> {}]
    ELSE LET r == load_data(source(u, url))
         IN  [error |-> r.error, df |-> r.df, read |-> {u},
              cache |-> IF r.error = NoError THEN (u :> r.df) @@ c ELSE c]

\* one run of the script, top to bottom
script(u, url, c, d, hr, imgRaises) ==
    LET g == get_data(u, url, c)
    IN  IF g.error # NoError
        THEN [Blank EXCEPT !.error = g.error]
                @@ [df |-> EmptyDf, filtered |-> EmptyDf, cache |-> g.cache, read |-> g.read]
        ELSE LET f == filter_data(g.df, d, hr)
                 b == dashboard(f, imgRaises)
             IN  [b EXCEPT !.computed = @ \cup {"df", "filtered"}]
                    @@ [df |-> g.df, filtered |-> f, cache |-> g.cache, read |-> g.read]

Assign(r) ==
    /\ cache' = r.cache
    /\ readSrc' = r.read
    /\ error' = r.error
    /\ computed' = r.computed
    /\ df' = r.df
    /\ filtered' = r.filtered
    /\ metrics' = r.metrics
    /\ top_songs' = r.top_songs
    /\ top_artists' = r.top_artists
    /\ artwork' = r.artwork
    /\ avg_data' = r.avg_data
    /\ heatmap_df' = r.heatmap_df
    /\ daily_counts' = r.daily_counts

Rerun(u, d, hr) ==
    /\ uploaded' = u
    /\ days' = d
    /\ hour_range' = hr
    /\ \E imgRaises \in BOOLEAN : Assign(script(u, urlFile, cache, d, hr, imgRaises))
    /\ UNCHANGED <<urlFile, phase>>

\* the sidebar widgets of lines 33-40 exist only if the last run got past line 31
WidgetsRendered == "df" \in computed

Init ==
    /\ urlFile \in FallbackFiles
    /\ uploaded = NoUpload
    /\ days = AllDays
    /\ hour_range = <<DefaultStart, DefaultEnd>>
    /\ phase = "done"
    /\ \E imgRaises \in BOOLEAN :
         LET r == script(NoUpload, urlFile, EmptyCache, AllDays,
                         <<DefaultStart, DefaultEnd>>, imgRaises)
         IN  /\ cache = r.cache
             /\ readSrc = r.read
             /\ error = r.error
             /\ computed = r.computed
             /\ df = r.df
             /\ filtered = r.filtered
             /\ metrics = r.metrics
             /\ top_songs = r.top_songs
             /\ top_artists = r.top_artists
             /\ artwork = r.artwork
             /\ avg_data = r.avg_data
             /\ heatmap_df = r.heatmap_df
             /\ daily_counts = r.daily_counts

\* the user uploads a file, or removes the uploaded one
Upload(u) ==
    /\ u # uploaded
    /\ Rerun(u, days, hour_range)

SetDays(d) ==
    /\ WidgetsRendered
    /\ d # days
    /\ Rerun(uploaded, d, hour_range)

SetHours(hr) ==
    /\ WidgetsRendered
    /\ hr # hour_range
    /\ Rerun(uploaded, days, hr)

\* the user reruns the script without changing a widget
Refresh == Rerun(uploaded, days, hour_range)

Next ==
    \/ \E u \in SampleFiles \cup {NoUpload} : Upload(u)
    \/ \E d \in DaySets : SetDays(d)
    \/ \E hr \in SliderRanges : SetHours(hr)
    \/ Refresh

Spec == Init /\ [][Next]_vars

----------------------------------------------------------------------------
(* The pipeline on one source, function by function: load_data, then         *)
(* filter_data with any arguments, then the dashboard section.               *)

FnInit ==
    /\ uploaded \in Files
    /\ urlFile = GoodFile
    /\ cache = EmptyCache
    /\ readSrc = {}
    /\ days = AllDays
    /\ hour_range = <<DefaultStart, DefaultEnd>>
    /\ phase = "start"
    /\ error = NoError
    /\ computed = {}
    /\ df = EmptyDf
    /\ filtered = EmptyDf
    /\ metrics = NoMetrics
    /\ top_songs = <<>>
    /\ top_artists = <<>>
    /\ artwork = <<>>
    /\ avg_data = <<>>
    /\ heatmap_df = <<>>
    /\ daily_counts = <<>>

\* df = load_data(source); an exception stops the script
FnLoad ==
    /\ phase = "start"
    /\ LET r == load_data(uploaded)
       IN  /\ error' = r.error
           /\ df' = r.df
           /\ computed' = IF r.error = NoError THEN {"df"} ELSE {}
           /\ phase' = IF r.error = NoError THEN "loaded" ELSE "done"
    /\ readSrc' = {uploaded}
    /\ UNCHANGED <<uploaded, urlFile, cache, days, hour_range, outputs>>

\* filtered = filter_data(df, W, hr), first or after a change of selection
FnFilter(W, hr) ==
    /\ phase \in {"loaded", "done"}
    /\ "df" \in computed
    /\ phase = "done" => <<W, hr>> # <<days, hour_range>>
    /\ days' = W
    /\ hour_range' = hr
    /\ filtered' = filter_data(df, W, hr)
    /\ computed' = {"df", "filtered"}
    /\ error' = NoError
    /\ phase' = "filtered"
    /\ metrics' = NoMetrics
    /\ top_songs' = <<>>
    /\ top_artists' = <<>>
    /\ artwork' = <<>>
    /\ avg_data' = <<>>
    /\ heatmap_df' = <<>>
    /\ daily_counts' = <<>>
    /\ UNCHANGED <<uploaded, urlFile, cache, readSrc, df>>

\* lines 55-109 on the filtered dataset
FnDashboard ==
    /\ phase = "filtered"
    /\ \E imgRaises \in BOOLEAN :
         LET b == dashboard(filtered, imgRaises)
         IN  /\ error' = b.error
             /\ computed' = computed \cup b.computed
             /\ metrics' = b.metrics
             /\ top_songs' = b.top_songs
             /\ top_artists' = b.top_artists
             /\ artwork' = b.artwork
             /\ avg_data' = b.avg_data
             /\ heatmap_df' = b.heatmap_df
             /\ daily_counts' = b.daily_counts
    /\ phase' = "done"
    /\ UNCHANGED <<uploaded, urlFile, cache, readSrc, days, hour_range, df, filtered>>

FnNext ==
    \/ FnLoad
    \/ \E W \in AnyDaySets, hr \in AnyRanges : FnFilter(W, hr)
    \/ FnDashboard

SpecFn == FnInit /\ [][FnNext]_vars

----------------------------------------------------------------------------
(* Properties *)

\* the file the current source reference stands for
Source == source(uploaded, urlFile)

\* the j-th smallest index of the index set K
Nth(K, j) == CHOOSE i \in K : Cardinality({k \in K : k < i}) = j - 1

\* s holds exactly the elements of t at the indices K, in the order of t
IsSelection(s, t, K) ==
    /\ Len(s) = Cardinality(K)
    /\ \A j \in 1..Len(s) : s[j] = t[Nth(K, j)]

\* C1: filter_data(D, W, (s, e)) holds exactly the rows of D whose day_of_week
\* is in W and whose hour h satisfies s <= h <= e, each once and in the order
\* of D; so an empty W, or s > e, gives an empty result.
C1_FilterExact ==
    "filtered" \in computed =>
        LET K == {i \in DOMAIN df.rows :
                    /\ df.rows[i].day_of_week \in days
                    /\ hour_range[1] <= df.rows[i].hour
                    /\ df.rows[i].hour <= hour_range[2]}
        IN  /\ IsSelection(filtered.rows, df.rows, K)
            /\ (days = {} \/ hour_range[1] > hour_range[2]) => filtered.rows = <<>>

C1_Witness ==
    /\ "filtered" \in computed
    /\ Len(df.rows) >= 2
    /\ filtered.rows # <<>>
    /\ Len(filtered.rows) < Len(df.rows)
    /\ filtered.rows[1] # df.rows[1]

IsSentinel(r) == r.artist = NETWORK \/ r.song = PROMO

\* C2: after load_data no row has the network's artist or the promo song (a
\* row is dropped if either holds), every other source row is kept, and
\* after any sequence of filter changes no such row is in the filtered view
\* or in an aggregate computed from it.
C2_NoSentinelRows ==
    "df" \in computed =>
        LET K == {i \in DOMAIN Source.rows : ~IsSentinel(Source.rows[i])}
        IN  /\ IsSelection([i \in DOMAIN df.rows |->
                              <<df.rows[i].timestamp, df.rows[i].artist, df.rows[i].song>>],
                           [i \in DOMAIN Source.rows |->
                              <<Source.rows[i].timestamp, Source.rows[i].artist,
                                Source.rows[i].song>>], K)
            /\ \A i \in DOMAIN df.rows : ~IsSentinel(df.rows[i])
            /\ \A i \in DOMAIN filtered.rows : ~IsSentinel(filtered.rows[i])
            /\ \A i \in DOMAIN top_songs : top_songs[i].value # PROMO
            /\ \A i \in DOMAIN top_artists : top_artists[i].value # NETWORK
            /\ \A i \in DOMAIN artwork : artwork[i].song # PROMO
            /\ \A i \in DOMAIN avg_data : avg_data[i].song # PROMO
            /\ metrics.total_plays <= Cardinality(K)

C2_Witness ==
    /\ phase = "done"
    /\ "top_songs" \in computed
    /\ hour_range # <<DefaultStart, DefaultEnd>>
    /\ \E i, j \in DOMAIN Source.rows :
         /\ Source.rows[i].artist = NETWORK /\ Source.rows[i].song # PROMO
         /\ ~IsSentinel(Source.rows[j])
    /\ filtered.rows # <<>>

\* C3: across user interactions the source is read and parsed only when the
\* source reference is not one already loaded: a step that changes only the
\* filters reads nothing, a source reference that is not loaded is read, and
\* the dataset that is filtered is the one of the current source reference.
C3_Step ==
    /\ (uploaded' = uploaded /\ <<days', hour_range'>> # <<days, hour_range>>)
          => readSrc' = {}
    /\ readSrc' # {} => (readSrc' = {uploaded'} /\ uploaded' \notin DOMAIN cache)
    /\ uploaded' \notin DOMAIN cache => readSrc' = {uploaded'}
    /\ "df" \in computed' =>
          /\ df' = load_data(source(uploaded', urlFile)).df
          /\ \A i \in DOMAIN filtered'.rows :
                \E j \in DOMAIN df'.rows : filtered'.rows[i] = df'.rows[j]
C3_LoadOncePerSource == [][C3_Step]_vars

C3_Witness ==
    /\ uploaded # NoUpload
    /\ readSrc = {}
    /\ Cardinality(DOMAIN cache) >= 3
    /\ hour_range # <<DefaultStart, DefaultEnd>>
    /\ "df" \in computed

Aggregates == {"top_songs", "top_artists", "avg_data", "heatmap_df", "daily_counts"}

\* C4: when the filtered dataset has no rows, the top-songs and top-artists
\* counts, the average-gap table, the day x hour table and the daily series
\* come out empty, the three metrics are 0, and nothing in the run raises.
C4_EmptySelectionDegrades ==
    ("filtered" \in computed /\ filtered.rows = <<>>) =>
        /\ error = NoError
        /\ Aggregates \subseteq computed
        /\ top_songs = <<>> /\ top_artists = <<>> /\ avg_data = <<>>
        /\ heatmap_df = <<>> /\ daily_counts = <<>>
        /\ metrics = NoMetrics

HasArtworkColumn(file) ==
    Has(file.columns, "artwork_large") \/ Has(file.columns, "artwork_url")

\* C5: if the source has no artwork column, or a top song's first matching
\* record has no artwork URL, the artwork step shows nothing or a placeholder
\* for that song and the rest of the render (average-gap table, heatmap,
\* daily series) still completes; missing artwork never fails the render.
\* a top song shown in the artwork row whose first matching record has no URL
FirstRecordLacksUrl ==
    \E i \in 1..Min(Len(top_songs), MaxArtCols) :
        \E j \in DOMAIN filtered.rows :
            /\ filtered.rows[j].song = top_songs[i].value
            /\ \A k \in 1..(j - 1) : filtered.rows[k].song # top_songs[i].value
            /\ \A a \in DOMAIN filtered.rows[j].art : filtered.rows[j].art[a] = NaN

C5_MissingArtworkTolerated ==
    ("top_songs" \in computed /\ top_songs # <<>>
        /\ (~HasArtworkColumn(Source) \/ FirstRecordLacksUrl)) =>
        /\ error = NoError
        /\ {"artwork", "avg_data", "heatmap_df", "daily_counts"} \subseteq computed

LacksRequired(file) == \E c \in {"timestamp", "artist", "song"} : ~Has(file.columns, c)
HasUnparseable(file) == \E i \in DOMAIN file.rows : file.rows[i].timestamp = Unparseable

\* C6: if the source lacks one of the columns timestamp, artist, song, or
\* holds a timestamp that cannot be parsed, loading fails with an error
\* before any filter or aggregate is computed, and no partially loaded
\* dataset is filtered, aggregated or displayed.
C6_LoadFailsCleanly ==
    (phase # "start" /\ (LacksRequired(Source) \/ HasUnparseable(Source))) =>
        /\ error # NoError
        /\ error.line \in 8..18
        /\ phase = "done"
        /\ computed = {}
        /\ df = EmptyDf /\ filtered = EmptyDf
        /\ metrics = NoMetrics
        /\ top_songs = <<>> /\ top_artists = <<>> /\ artwork = <<>>
        /\ avg_data = <<>> /\ heatmap_df = <<>> /\ daily_counts = <<>>

C6_Witness ==
    /\ phase = "done"
    /\ error.type = "AttributeError"
    /\ ~LacksRequired(Source)
    /\ \A i \in DOMAIN Source.rows :
         Source.rows[i].timestamp = Unparseable => IsSentinel(Source.rows[i])


\* the filtered values of a field, and the facts C7 states of the top-n
\* counts `top` over them, but for the equality of the sum
SumCounts(top) == Sum([i \in DOMAIN top |-> top[i].count])
RankCountsOk(top, vals) ==
    /\ Len(top) <= TopN
    /\ \A i \in 1..(Len(top) - 1) : top[i].count >= top[i + 1].count
    /\ \A i \in DOMAIN top : top[i].count = Count(vals, top[i].value)
    /\ \A i, j \in DOMAIN top : i # j => top[i].value # top[j].value
    /\ SumCounts(top) <= Len(vals)
NoMissing(vals) == ~Has(vals, NaN)
Distinct(vals) == {vals[i] : i \in DOMAIN vals} \ {NaN}

\* C7 as stated: for the top-n rank counts over song and over artist
\* (n = 30) the result has at most n entries, the counts are non-increasing,
\* each count is the number of filtered rows carrying that value, and the
\* sum of the counts is <= the number of filtered rows, with equality when
\* the field has no missing values.
C7_AsStated ==
    "top_songs" \in computed =>
        LET songs == Column(filtered, "song")
            artists == Column(filtered, "artist")
        IN  /\ RankCountsOk(top_songs, songs)
            /\ RankCountsOk(top_artists, artists)
            /\ NoMissing(songs) => SumCounts(top_songs) = Len(songs)
            /\ NoMissing(artists) => SumCounts(top_artists) = Len(artists)

\* C7 amended: as stated, with the sum of the counts equal to the number of
\* filtered rows when the field has no missing values and at most n distinct
\* values.
C7_RankCounts ==
    "top_songs" \in computed =>
        LET songs == Column(filtered, "song")
            artists == Column(filtered, "artist")
        IN  /\ RankCountsOk(top_songs, songs)
            /\ RankCountsOk(top_artists, artists)
            /\ (NoMissing(songs) /\ Cardinality(Distinct(songs)) <= TopN)
                  => SumCounts(top_songs) = Len(songs)
            /\ (NoMissing(artists) /\ Cardinality(Distinct(artists)) <= TopN)
                  => SumCounts(top_artists) = Len(artists)

C7_Witness ==
    /\ "top_songs" \in computed
    /\ Len(top_songs) = TopN
    /\ top_songs[1].count > top_songs[2].count
    /\ Cardinality(Distinct(Column(filtered, "song"))) > TopN
    /\ NoMissing(Column(filtered, "song"))

\* the times at which the filtered dataset plays a song
PlayTimes(song) ==
    LET p == SelectSeq(filtered.rows, LAMBDA r : r.song = song)
    IN  [i \in DOMAIN p |-> p[i].timestamp]
Earliest(ts) == CHOOSE t \in {ts[i] : i \in DOMAIN ts} : \A i \in DOMAIN ts : t <= ts[i]
Latest(ts) == CHOOSE t \in {ts[i] : i \in DOMAIN ts} : \A i \in DOMAIN ts : ts[i] <= t
\* the consecutive gaps of n plays in ascending order add up to the time from
\* the earliest play to the latest, so their mean in hours is
\* (Latest - Earliest) / (60 * (n - 1)) for times in minutes
GapMinutes(ts) == Latest(ts) - Earliest(ts)
Abs(x) == IF x < 0 THEN -x ELSE x

\* C8 as stated: for each top song the reported average gap is the
\* arithmetic mean of the differences, in hours, between consecutive plays
\* of the song in the filtered dataset sorted by timestamp; a song with
\* fewer than two plays gets no value, never 0.
C8_AsStated ==
    "avg_data" \in computed =>
        /\ Len(avg_data) = Len(top_songs)
        /\ \A i \in DOMAIN avg_data :
            LET ts == PlayTimes(avg_data[i].song)
                v == avg_data[i].avg_hours_between_plays
            IN  /\ avg_data[i].song = top_songs[i].value
                /\ Len(ts) < 2 => v.nan
                /\ Len(ts) >= 2 =>
                      /\ ~v.nan
                      /\ v.hundredths * MinutesPerHour * (Len(ts) - 1)
                            = 100 * GapMinutes(ts)

\* C8 amended: the reported average gap is that mean rounded to two
\* decimals (within half a hundredth of an hour of it); a song with fewer
\* than two plays gets no value, never 0.
C8_AverageGap ==
    "avg_data" \in computed =>
        /\ Len(avg_data) = Len(top_songs)
        /\ \A i \in DOMAIN avg_data :
            LET ts == PlayTimes(avg_data[i].song)
                v == avg_data[i].avg_hours_between_plays
            IN  /\ avg_data[i].song = top_songs[i].value
                /\ Len(ts) < 2 => v.nan
                /\ Len(ts) >= 2 =>
                      /\ ~v.nan
                      /\ 2 * Abs(v.hundredths * MinutesPerHour * (Len(ts) - 1)
                                   - 100 * GapMinutes(ts))
                            <= MinutesPerHour * (Len(ts) - 1)

\* plays at hours 5, 0 and 2 of one day, in that order in the file, give 2.5
C8_Witness ==
    /\ "avg_data" \in computed
    /\ \E i \in DOMAIN avg_data :
         /\ PlayTimes(avg_data[i].song) = <<At(1, 5, 0), At(1, 0, 0), At(1, 2, 0)>>
         /\ avg_data[i].avg_hours_between_plays = Float(250)

Pairs(rows) == {<<rows[i].day_of_week, rows[i].hour>> : i \in DOMAIN rows}

\* C9: the day x hour table has exactly one entry per (day_of_week, hour)
\* pair that occurs in the filtered rows and none for other pairs, each
\* entry's count is the number of filtered rows with that pair, and the
\* counts add up to the number of filtered rows.
C9_HeatmapCounts ==
    "heatmap_df" \in computed =>
        /\ Pairs(heatmap_df) = Pairs(filtered.rows)
        /\ Len(heatmap_df) = Cardinality(Pairs(filtered.rows))
        /\ \A i \in DOMAIN heatmap_df :
             heatmap_df[i].count =
                Cardinality({j \in DOMAIN filtered.rows :
                    <<filtered.rows[j].day_of_week, filtered.rows[j].hour>>
                        = <<heatmap_df[i].day_of_week, heatmap_df[i].hour>>})
        /\ Sum([i \in DOMAIN heatmap_df |-> heatmap_df[i].count]) = Len(filtered.rows)

C9_Witness ==
    /\ "heatmap_df" \in computed
    /\ Len(heatmap_df) >= 2
    /\ \E i \in DOMAIN heatmap_df : heatmap_df[i].count >= 2

\* C10: when the source has both artwork_large and artwork_url, the loaded
\* dataset exposes a single artwork_url field per record, holding the value
\* of the source's artwork_url column; when only artwork_large exists, its
\* values are exposed as artwork_url.
C10_CanonicalArtwork ==
    "df" \in computed =>
        LET kept == SelectSeq(Source.rows, LAMBDA r : ~IsSentinel(r))
        IN  /\ Has(Source.columns, "artwork_url") =>
                /\ Count(df.columns, "artwork_url") = 1
                /\ \A i \in DOMAIN df.rows : df.rows[i].art = <<kept[i].artwork_url>>
            /\ (Has(Source.columns, "artwork_large") /\ ~Has(Source.columns, "artwork_url")) =>
                /\ Count(df.columns, "artwork_url") = 1
                /\ \A i \in DOMAIN df.rows : df.rows[i].art = <<kept[i].artwork_large>>

====
